---- MODULE Spec2Model ----
(***************************************************************************)
(* Model of the normalizing-flow construction code:                        *)
(*   tools.py      mask generators, sample_save_show's shape arithmetic    *)
(*   nn_layers.py  GatedConvNet / GatedLinearNet construction and forward  *)
(*   network.py    the flow recipes and create_flow                        *)
(* Tensors are records [shape, data] with data in row-major order.         *)
(* Floating-point values that occur are small integers or k/2, k/4, which  *)
(* float32 holds exactly; rationals are pairs <<num, den>>.                *)
(***************************************************************************)
EXTENDS Integers, Sequences, FiniteSets, TLC

\* ---------------------------------------------------------------- bounds
MaxSize == 28
MaxC == 2
MaxSamples == 2
MaxH == 4
MaxW == 4
MaxCin == 5
MaxHidden == 2
MaxSeed == 3
MaxFeatures == 2

VARIABLES
    pc,            \* position of the construction scenario
    config,        \* the config object handed to create_flow
    ret,           \* what create_flow returned or raised
    moved,         \* net.to(device) was executed
    printed,       \* "Done Creating Network!" was printed
    flow_layers,   \* result of a direct get_flow_layers call
    z,             \* result of encoding a batch through the returned flow
    sample_shape,  \* the latent shape sample_save_show computed
    prev, cur,     \* the last two mask-generator calls (args and result)
    net,           \* a constructed gated network
    out            \* the last forward result of net

flowVars == <<pc, config, ret, moved, printed, flow_layers, z, sample_shape>>
maskVars == <<prev, cur>>
netVars == <<net, out>>
vars == <<pc, config, ret, moved, printed, flow_layers, z, sample_shape,
          prev, cur, net, out>>

\* ------------------------------------------------------- tensor helpers
RECURSIVE Prod(_)
Prod(s) == IF s = <<>> THEN 1 ELSE Head(s) * Prod(Tail(s))

Tensor(shape, data) == [shape |-> shape, data |-> data]

\* torch.fmod: remainder with the sign of the dividend
fmod(a, b) == IF a >= 0 THEN a % b ELSE -((-a) % b)

\* `mask = 1 - mask`
OneMinus_noop(mask) == mask

OneMinus(mask) == [mask EXCEPT !.data = [p \in DOMAIN mask.data |-> 1 - mask.data[p]]]

\* torch.fmod(hh + ww, 2) at meshgrid position (i, j), indexing='ij'
CheckerValue_shifted(i, j) == fmod(i + j + 1, 2)

CheckerValue(i, j) == fmod(i + j, 2)

create_checkerboard_mask(h, w, invert) ==
    LET mask == Tensor(<<1, 1, h, w>>,
                       [p \in 1..(h * w) |-> CheckerValue((p - 1) \div w, (p - 1) % w)])
    IN IF invert THEN OneMinus(mask) ELSE mask

\* c_in // 2, the number of leading ones
SplitPoint_ceil(c_in) == (c_in + 1) \div 2

SplitPoint(c_in) == c_in \div 2

create_channel_mask(c_in, invert) ==
    LET ones == [k \in 1..SplitPoint(c_in) |-> 1]
        zeros == [k \in 1..(c_in - SplitPoint(c_in)) |-> 0]
        mask == Tensor(<<1, c_in, 1, 1>>, ones \o zeros)
    IN IF invert THEN OneMinus(mask) ELSE mask

\* ------------------------------------------------ mask generator calls
NoCall == [fn |-> "none"]

CallCheckerboard(h, w, invert) ==
    /\ prev' = cur
    /\ cur' = [fn |-> "create_checkerboard_mask", h |-> h, w |-> w, invert |-> invert,
               mask |-> create_checkerboard_mask(h, w, invert)]
    /\ UNCHANGED <<flowVars, netVars>>

CallChannel(c_in, invert) ==
    /\ prev' = cur
    /\ cur' = [fn |-> "create_channel_mask", c_in |-> c_in, invert |-> invert,
               mask |-> create_channel_mask(c_in, invert)]
    /\ UNCHANGED <<flowVars, netVars>>

\* ------------------------------------------------------ nn_layers.py
RECURSIVE SumSeq(_)
SumSeq(s) == IF s = <<>> THEN 0 ELSE Head(s) + SumSeq(Tail(s))

\* a draw of the default (random) parameter initialisation; never all zero
Rand(seed, k) == ((seed * (k + 3) + k * k) % 5) - 2

\* tensor.data.zero_()
zero_(t) == [t EXCEPT !.data = [p \in DOMAIN t.data |-> 0]]

Raise(type, msg) == [status |-> "error", error |-> type, msg |-> msg]

IsError(v) == "status" \in DOMAIN v /\ v.status = "error"

\* nn.Conv2d(in_channels, out_channels, kernel_size, padding=1): randomly initialised
Conv2d(in_channels, out_channels, kernel_size, seed) ==
    [kind |-> "Conv2d", in_channels |-> in_channels, out_channels |-> out_channels,
     kernel_size |-> kernel_size,
     weight |-> Tensor(<<out_channels, in_channels, kernel_size, kernel_size>>,
                       [p \in 1..(out_channels * in_channels * kernel_size * kernel_size)
                           |-> Rand(seed, p)]),
     bias |-> Tensor(<<out_channels>>, [p \in 1..out_channels |-> Rand(seed + 1, p)])]

\* nn.Linear(in_features, out_features): randomly initialised
Linear(in_features, out_features, seed) ==
    [kind |-> "Linear", in_features |-> in_features, out_features |-> out_features,
     weight |-> Tensor(<<out_features, in_features>>,
                       [p \in 1..(out_features * in_features) |-> Rand(seed, p)]),
     bias |-> Tensor(<<out_features>>, [p \in 1..out_features |-> Rand(seed + 1, p)])]

\* the keyword parameters GatedConvNet.__init__ accepts
GatedConvNet_params == {"c_in", "c_hidden", "c_out", "num_layers"}

Default(kwargs, name, d) == IF name \in DOMAIN kwargs THEN kwargs[name] ELSE d

\* c_out = c_out if c_out > 0 else 2 * c_in
ResolveCOut(c_out, c_in) == IF c_out > 0 THEN c_out ELSE 2 * c_in

\* GatedConvNet(**kwargs): the call binds its keywords, then __init__ fixes the widths
GatedConvNet(kwargs) ==
    IF ~(DOMAIN kwargs \subseteq GatedConvNet_params)
    THEN Raise("TypeError", <<"__init__() got an unexpected keyword argument",
                              CHOOSE k \in DOMAIN kwargs : k \notin GatedConvNet_params>>)
    ELSE IF "c_in" \notin DOMAIN kwargs
    THEN Raise("TypeError", <<"__init__() missing 1 required positional argument", "c_in">>)
    ELSE [kind |-> "GatedConvNet",
          c_in |-> kwargs.c_in,
          c_hidden |-> Default(kwargs, "c_hidden", 32),
          c_out |-> ResolveCOut(Default(kwargs, "c_out", -1), kwargs.c_in),
          num_layers |-> Default(kwargs, "num_layers", 3)]

\* GatedLinearNet(in_features, num_layers=3)
GatedLinearNet(in_features) ==
    [kind |-> "GatedLinearNet", in_features |-> in_features, num_layers |-> 3]

\* self.nn[-1].weight.data.zero_(); self.nn[-1].bias.data.zero_()
ZeroInit_weightOnly(layer) == [layer EXCEPT !.weight = zero_(layer.weight)]

ZeroInit(layer) == [layer EXCEPT !.weight = zero_(layer.weight), !.bias = zero_(layer.bias)]

\* the parameters GatedConvNet.__init__ creates: first and last convolution
GatedConvNet_parameters(n, seed) ==
    [kind |-> n.kind, c_in |-> n.c_in, c_hidden |-> n.c_hidden, c_out |-> n.c_out,
     first |-> Conv2d(n.c_in, n.c_hidden, 3, seed),
     last |-> ZeroInit(Conv2d(2 * n.c_hidden, n.c_out, 3, seed + 2))]

\* the parameters GatedLinearNet.__init__ creates: first and last linear layer
GatedLinearNet_parameters(n, seed) ==
    [kind |-> n.kind, in_features |-> n.in_features,
     first |-> Linear(n.in_features, n.in_features, seed),
     last |-> ZeroInit(Linear(2 * n.in_features, 2 * n.in_features, seed + 2))]

\* element (ch, y, x) of a [1, C, H, W] tensor, 0 outside (padding=1)
At(t, ch, y, x) ==
    IF y < 0 \/ y >= t.shape[3] \/ x < 0 \/ x >= t.shape[4] THEN 0
    ELSE t.data[(ch * t.shape[3] + y) * t.shape[4] + x + 1]

\* the convolution nn.Conv2d computes, stride 1, padding 1
Conv2d_forward(layer, x) ==
    LET K == layer.kernel_size
        In == layer.in_channels
        H == x.shape[3]
        W == x.shape[4]
        term(o, yy, xx, t) ==
            LET i == (t - 1) \div (K * K)
                dy == ((t - 1) % (K * K)) \div K
                dx == (t - 1) % K
            IN layer.weight.data[((o * In + i) * K + dy) * K + dx + 1]
                 * At(x, i, yy + dy - 1, xx + dx - 1)
        val(o, yy, xx) ==
            layer.bias.data[o + 1] + SumSeq([t \in 1..(In * K * K) |-> term(o, yy, xx, t)])
    IN Tensor(<<1, layer.out_channels, H, W>>,
              [p \in 1..(layer.out_channels * H * W) |->
                  val((p - 1) \div (H * W), ((p - 1) % (H * W)) \div W, (p - 1) % W)])

\* the affine map nn.Linear computes on a [1, in_features] tensor
Linear_forward(layer, x) ==
    LET In == layer.in_features
        val(o) == layer.bias.data[o + 1]
                    + SumSeq([i \in 1..In |-> layer.weight.data[o * In + i] * x.data[i]])
    IN Tensor(<<1, layer.out_features>>, [p \in 1..layer.out_features |-> val(p - 1)])

\* the activations reaching the last layer: whatever the earlier layers produce
Hidden(shape, hseed) == Tensor(shape, [p \in 1..Prod(shape) |-> Rand(hseed, p + 1)])

\* GatedConvNet.forward on a [1, c_in, h, w] input: self.nn(x) ends in the last conv
GatedConvNet_forward(n, h, w, hseed) ==
    Conv2d_forward(n.last, Hidden(<<1, 2 * n.c_hidden, h, w>>, hseed))

\* GatedLinearNet.forward on a [b, c, h, w] input: flatten, self.nn, reshape
GatedLinearNet_forward(n, c, h, w, hseed) ==
    LET lin == Linear_forward(n.last, Hidden(<<1, 2 * n.in_features>>, hseed))
    IN Tensor(<<1, 2 * c, h, w>>, lin.data)

NoNet == [kind |-> "none"]
NoOut == [kind |-> "none"]

NewGatedConvNet(c_in, c_hidden, c_out, seed) ==
    /\ net.kind = "none"
    /\ net' = GatedConvNet_parameters(
                 GatedConvNet([c_in |-> c_in, c_hidden |-> c_hidden, c_out |-> c_out]), seed)
    /\ out' = NoOut
    /\ UNCHANGED <<flowVars, maskVars>>

NewGatedLinearNet(in_features, seed) ==
    /\ net.kind = "none"
    /\ net' = GatedLinearNet_parameters(GatedLinearNet(in_features), seed)
    /\ out' = NoOut
    /\ UNCHANGED <<flowVars, maskVars>>

ForwardConv(h, w, hseed) ==
    /\ net.kind = "GatedConvNet"
    /\ out.kind = "none"
    /\ out' = [kind |-> "GatedConvNet", x_shape |-> <<1, net.c_in, h, w>>,
               hidden |-> Hidden(<<1, 2 * net.c_hidden, h, w>>, hseed),
               y |-> GatedConvNet_forward(net, h, w, hseed)]
    /\ UNCHANGED <<net, flowVars, maskVars>>

ForwardLinear(c, h, w, hseed) ==
    /\ net.kind = "GatedLinearNet"
    /\ c * h * w = net.in_features
    /\ out.kind = "none"
    /\ out' = [kind |-> "GatedLinearNet", x_shape |-> <<1, c, h, w>>,
               hidden |-> Hidden(<<1, 2 * net.in_features>>, hseed),
               y |-> GatedLinearNet_forward(net, c, h, w, hseed)]
    /\ UNCHANGED <<net, flowVars, maskVars>>

\* ------------------------------------------- flow_models / flow_template
\* a float tensor entry as an exact fraction
R(num, den) == <<num, den>>

CouplingLayer(network, mask, c_in) ==
    [kind |-> "CouplingLayer", network |-> network, mask |-> mask, c_in |-> c_in]

VariationalDequantization(var_flows) ==
    [kind |-> "VariationalDequantization", var_flows |-> var_flows]

Dequantization == [kind |-> "Dequantization"]

SqueezeFlow == [kind |-> "SqueezeFlow"]

SplitFlow == [kind |-> "SplitFlow"]

ImageFlow(flows) == [kind |-> "ImageFlow", flows |-> flows]

Ok(fields) == [status |-> "ok"] @@ fields

\* --------------------------------------------------------- network.py
\* invert=(i % 2 == 1)
Invert_never(i) == FALSE

Invert(i) == i % 2 = 1

get_flow_layers(size, c, vardeq, num_layers, linear, partial_conv) ==
    LET vnet == GatedConvNet([c_in |-> 2 * c, c_out |-> 2 * c, c_hidden |-> 16,
                              partial_conv |-> partial_conv])
        vardeq_layers == [k \in 1..4 |->
            CouplingLayer(vnet, create_checkerboard_mask(size, size, Invert(k - 1)), 1 * c)]
        cnet == GatedConvNet([c_in |-> 1 * c, c_hidden |-> 32, partial_conv |-> partial_conv])
        lnet == GatedLinearNet(c * size * size)
        main == [k \in 1..num_layers |->
            CouplingLayer(IF linear THEN lnet ELSE cnet,
                          create_checkerboard_mask(size, size, Invert(k - 1)), 1 * c)]
    IN IF vardeq /\ IsError(vnet) THEN vnet
       ELSE IF num_layers > 0 /\ ~linear /\ IsError(cnet) THEN cnet
       ELSE Ok([flow_layers |->
                  <<IF vardeq THEN VariationalDequantization(vardeq_layers)
                              ELSE Dequantization>> \o main])

\* return flow_model, sample_shape_factor  with torch.tensor([1, 1, 1, 1])
Recipe(fl) ==
    IF IsError(fl) THEN fl
    ELSE Ok([flow_model |-> ImageFlow(fl.flow_layers),
             sample_shape_factor |-> <<R(1, 1), R(1, 1), R(1, 1), R(1, 1)>>])

create_simple_flow(cfg) ==
    Recipe(get_flow_layers(cfg.size, cfg.c, FALSE, 8, FALSE, FALSE))

create_vardeq_flow(cfg) ==
    Recipe(get_flow_layers(cfg.size, cfg.c, TRUE, 8, FALSE, FALSE))

create_long_flow(cfg) ==
    Recipe(get_flow_layers(cfg.size, cfg.c, TRUE, 15, FALSE, FALSE))

create_linear_flow(cfg) ==
    Recipe(get_flow_layers(cfg.size, cfg.c, TRUE, 8, TRUE, FALSE))

create_partial_conv_flow(cfg) ==
    Recipe(get_flow_layers(cfg.size, cfg.c, TRUE, 8, FALSE, TRUE))

\* squeeze_twice = True if (config.size % 4 == 0) and (config.size >= 20) else False
squeeze_twice_sizeOnly(size) == size >= 20

squeeze_twice(size) == (size % 4 = 0) /\ (size >= 20)

\* sample_shape_factor = torch.tensor([1, 8, 0.25, 0.25])
Factor_twice_halved == <<R(1, 1), R(4, 1), R(1, 4), R(1, 4)>>

Factor_twice == <<R(1, 1), R(8, 1), R(1, 4), R(1, 4)>>

\* sample_shape_factor = torch.tensor([1, 2, 0.5, 0.5])
Factor_once == <<R(1, 1), R(2, 1), R(1, 2), R(1, 2)>>

create_multiscale_flow(cfg) ==
    LET vardeq_layers == [k \in 1..4 |->
            CouplingLayer(GatedConvNet([c_in |-> 2 * cfg.c, c_out |-> 2 * cfg.c, c_hidden |-> 16]),
                          create_checkerboard_mask(cfg.size, cfg.size, Invert(k - 1)),
                          1 * cfg.c)]
        stage1 == [k \in 1..2 |->
            CouplingLayer(GatedConvNet([c_in |-> 1 * cfg.c, c_hidden |-> 32]),
                          create_checkerboard_mask(cfg.size, cfg.size, Invert(k - 1)),
                          1 * cfg.c)]
        stage2 == [k \in 1..2 |->
            CouplingLayer(GatedConvNet([c_in |-> 4 * cfg.c, c_hidden |-> 48]),
                          create_channel_mask(4 * cfg.c, Invert(k - 1)),
                          4 * cfg.c)]
        head == <<VariationalDequantization(vardeq_layers)>> \o stage1
                  \o <<SqueezeFlow>> \o stage2 \o <<SplitFlow>>
        twice8 == [k \in 1..4 |->
            CouplingLayer(GatedConvNet([c_in |-> 8 * cfg.c, c_hidden |-> 64]),
                          create_channel_mask(8 * cfg.c, Invert(k - 1)),
                          8 * cfg.c)]
        once2 == [k \in 1..4 |->
            CouplingLayer(GatedConvNet([c_in |-> 2 * cfg.c, c_hidden |-> 64]),
                          create_channel_mask(2 * cfg.c, Invert(k - 1)),
                          2 * cfg.c)]
    IN IF squeeze_twice(cfg.size)
       THEN Ok([flow_model |-> ImageFlow(head \o <<SqueezeFlow>> \o twice8),
                sample_shape_factor |-> Factor_twice])
       ELSE Ok([flow_model |-> ImageFlow(head \o once2),
                sample_shape_factor |-> Factor_once])

\* the names create_<model_name>_flow that network.py defines
Builders == {"simple", "vardeq", "long", "linear", "partial_conv", "multiscale"}

CallBuilder(cfg) ==
    CASE cfg.model_name = "simple" -> create_simple_flow(cfg)
      [] cfg.model_name = "vardeq" -> create_vardeq_flow(cfg)
      [] cfg.model_name = "long" -> create_long_flow(cfg)
      [] cfg.model_name = "linear" -> create_linear_flow(cfg)
      [] cfg.model_name = "partial_conv" -> create_partial_conv_flow(cfg)
      [] cfg.model_name = "multiscale" -> create_multiscale_flow(cfg)

\* create_flow: eval of the name, then the builder call inside try/except NameError
create_flow_result(cfg) ==
    IF cfg.model_name \notin Builders
    THEN Raise("NameError", <<"name 'create_", cfg.model_name, "_flow' is not defined">>)
    ELSE LET r == CallBuilder(cfg)
         IN IF IsError(r) /\ r.error = "NameError"
            THEN Raise("NameError", <<"Unknown model: ", cfg.model_name>>)
            ELSE r

\* ---------------------------------------- shapes through the flow, forward
ShapeError == <<>>

\* x * mask broadcasts: a [1, 1, h, w] or [1, c, 1, 1] mask against [n, C, H, W]
Broadcasts(mask, x) ==
    /\ mask.shape[2] \in {1, x[2]}
    /\ mask.shape[3] \in {1, x[3]}
    /\ mask.shape[4] \in {1, x[4]}

\* the shape one transform's forward gives for an input of shape x
LayerForward(layer, x) ==
    IF x = ShapeError THEN ShapeError
    ELSE CASE layer.kind = "SqueezeFlow" ->
                IF x[3] % 2 = 0 /\ x[4] % 2 = 0
                THEN <<x[1], 4 * x[2], x[3] \div 2, x[4] \div 2>>
                ELSE ShapeError
           [] layer.kind = "SplitFlow" ->
                IF x[2] % 2 = 0 THEN <<x[1], x[2] \div 2, x[3], x[4]>> ELSE ShapeError
           [] layer.kind = "CouplingLayer" ->
                IF Broadcasts(layer.mask, x) THEN x ELSE ShapeError
           [] layer.kind = "VariationalDequantization" ->
                IF \A k \in DOMAIN layer.var_flows : Broadcasts(layer.var_flows[k].mask, x)
                THEN x ELSE ShapeError
           [] OTHER -> x

\* the shape reaching the k-th transform of flows when the flow encodes shape x
RECURSIVE ShapeBefore(_, _, _)
ShapeBefore(flows, k, x) ==
    IF k = 1 THEN x ELSE LayerForward(flows[k - 1], ShapeBefore(flows, k - 1, x))

\* ImageFlow.encode(imgs): every transform forward, in order
encode_shape(flow, x) == ShapeBefore(flow.flows, Len(flow.flows) + 1, x)

\* (batched_img_shape * sample_shape_factor).int(), one entry
TimesInt(n, f) == (n * f[1]) \div f[2]

\* sample_save_show: the latent shape handed to flow.sample
sample_shape_of(num_samples, img_shape, sample_shape_factor) ==
    LET batched_img_shape == <<num_samples>> \o img_shape
    IN [k \in 1..4 |-> TimesInt(batched_img_shape[k], sample_shape_factor[k])]

\* ------------------------------------------------------------ scenario
ModelNames == Builders \cup {"resnet", "glow"}

Configs == [model_name : ModelNames, size : 1..MaxSize, c : 1..MaxC,
            num_samples : 1..MaxSamples]

NoConfig == [model_name |-> "", size |-> 0, c |-> 0, num_samples |-> 0]
NoRet == [status |-> "none"]
NoZ == [status |-> "none"]
NoShape == <<>>

create_flow(cfg) ==
    /\ pc = "start"
    /\ config' = cfg
    /\ ret' = create_flow_result(cfg)
    /\ moved' = (ret'.status = "ok")
    /\ printed' = (ret'.status = "ok")
    /\ pc' = "created"
    /\ UNCHANGED <<flow_layers, z, sample_shape, maskVars, netVars>>

call_get_flow_layers(size, c, vardeq, num_layers, linear, partial_conv) ==
    /\ pc = "start"
    /\ flow_layers' = get_flow_layers(size, c, vardeq, num_layers, linear, partial_conv)
    /\ pc' = "layers"
    /\ UNCHANGED <<config, ret, moved, printed, z, sample_shape, maskVars, netVars>>

encode(b) ==
    /\ pc = "created"
    /\ ret.status = "ok"
    /\ LET x == <<b, config.c, config.size, config.size>>
           flows == ret.flow_model.flows
           zs == encode_shape(ret.flow_model, x)
       IN z' = [status |-> IF zs = ShapeError THEN "error" ELSE "ok",
                x_shape |-> x,
                reached |-> [k \in 1..Len(flows) |-> ShapeBefore(flows, k, x)],
                shape |-> zs]
    /\ UNCHANGED <<pc, config, ret, moved, printed, flow_layers, sample_shape,
                   maskVars, netVars>>

sample_save_show ==
    /\ pc = "created"
    /\ ret.status = "ok"
    /\ sample_shape' = sample_shape_of(config.num_samples,
                                       <<config.c, config.size, config.size>>,
                                       ret.sample_shape_factor)
    /\ UNCHANGED <<pc, config, ret, moved, printed, flow_layers, z, maskVars, netVars>>

NumLayersChoices == {0, 1, 2, 3}

Init ==
    /\ pc = "start"
    /\ config = NoConfig
    /\ ret = NoRet
    /\ moved = FALSE
    /\ printed = FALSE
    /\ flow_layers = NoRet
    /\ z = NoZ
    /\ sample_shape = NoShape
    /\ prev = NoCall
    /\ cur = NoCall
    /\ net = NoNet
    /\ out = NoOut

Next ==
    \/ \E cfg \in Configs : create_flow(cfg)
    \/ \E size \in 1..MaxSize, c \in 1..MaxC, vardeq \in BOOLEAN,
          num_layers \in NumLayersChoices, linear \in BOOLEAN, partial_conv \in BOOLEAN :
          call_get_flow_layers(size, c, vardeq, num_layers, linear, partial_conv)
    \/ \E b \in 1..MaxSamples : encode(b)
    \/ sample_save_show

Spec == Init /\ [][Next]_vars

MaskNext ==
    \/ \E h \in 1..MaxH, w \in 1..MaxW, invert \in BOOLEAN : CallCheckerboard(h, w, invert)
    \/ \E c_in \in 1..MaxCin, invert \in BOOLEAN : CallChannel(c_in, invert)

MaskSpec == Init /\ [][MaskNext]_vars

NetNext ==
    \/ \E c_in \in 1..MaxC, c_hidden \in 1..MaxHidden, c_out \in {-1} \cup (1..MaxC),
          seed \in 1..MaxSeed : NewGatedConvNet(c_in, c_hidden, c_out, seed)
    \/ \E in_features \in 1..MaxFeatures, seed \in 1..MaxSeed :
          NewGatedLinearNet(in_features, seed)
    \/ \E h \in 1..MaxH, w \in 1..MaxW, hseed \in 1..MaxSeed : ForwardConv(h, w, hseed)
    \/ \E c \in 1..MaxFeatures, h \in 1..MaxFeatures, w \in 1..MaxFeatures,
          hseed \in 1..MaxSeed : ForwardLinear(c, h, w, hseed)

NetSpec == Init /\ [][NetNext]_vars

\* ================================================================ claims
AllIn(t, S) == \A p \in DOMAIN t.data : t.data[p] \in S

Calls == {prev, cur}

flowsOf(r) == r.flow_model.flows

IsCoupling(layer) == layer.kind = "CouplingLayer"

NonMultiscale == {"simple", "vardeq", "long", "linear", "partial_conv"}

RecipeLength(name) == IF name = "long" THEN 15 ELSE 8

Ones == <<R(1, 1), R(1, 1), R(1, 1), R(1, 1)>>

\* C1: every non-multiscale recipe builder completes and returns one
\* dequantization transform (Dequantization for simple, VariationalDequantization
\* with 4 inner couplings otherwise) followed by exactly N coupling layers
\* (N = 8, 8, 15, 8, 8), with sample_shape_factor [1, 1, 1, 1].
C1_RecipesBuild ==
    (pc = "created" /\ config.model_name \in NonMultiscale) =>
        /\ ret.status = "ok"
        /\ Len(flowsOf(ret)) = 1 + RecipeLength(config.model_name)
        /\ IF config.model_name = "simple"
           THEN flowsOf(ret)[1].kind = "Dequantization"
           ELSE /\ flowsOf(ret)[1].kind = "VariationalDequantization"
                /\ Len(flowsOf(ret)[1].var_flows) = 4
        /\ \A k \in 2..Len(flowsOf(ret)) : IsCoupling(flowsOf(ret)[k])
        /\ ret.sample_shape_factor = Ones

CountKind(flows, kind) == Cardinality({k \in DOMAIN flows : flows[k].kind = kind})

\* C2: create_multiscale_flow returns factor [1, 8, 0.25, 0.25] exactly when
\* size mod 4 = 0 and size >= 20, and [1, 2, 0.5, 0.5] otherwise; size 28, c 1
\* gives [1, 8, 0.25, 0.25]; the second SqueezeFlow and the 8c-channel couplings
\* are in the layer list only in the squeeze-twice case.
C2_MultiscaleFactor ==
    (pc = "created" /\ config.model_name = "multiscale") =>
        LET twice == (config.size % 4 = 0 /\ config.size >= 20)
            flows == flowsOf(ret)
        IN /\ ret.status = "ok"
           /\ ret.sample_shape_factor =
                 IF twice THEN <<R(1, 1), R(8, 1), R(1, 4), R(1, 4)>>
                          ELSE <<R(1, 1), R(2, 1), R(1, 2), R(1, 2)>>
           /\ (config.size = 28 /\ config.c = 1) =>
                 ret.sample_shape_factor = <<R(1, 1), R(8, 1), R(1, 4), R(1, 4)>>
           /\ CountKind(flows, "SqueezeFlow") = IF twice THEN 2 ELSE 1
           /\ twice <=> (\E k \in DOMAIN flows :
                            IsCoupling(flows[k]) /\ flows[k].c_in = 8 * config.c)

C2_Witness ==
    /\ pc = "created"
    /\ config.model_name = "multiscale"
    /\ config.size = 28
    /\ config.c = 1
    /\ ret.status = "ok"
    /\ ret.sample_shape_factor = <<R(1, 1), R(8, 1), R(1, 4), R(1, 4)>>
    /\ CountKind(flowsOf(ret), "SqueezeFlow") = 2

\* C3: for every size that cannot be squeezed cleanly (odd, or not a multiple
\* of 4) create_multiscale_flow fails with a configuration error at construction
\* and returns no flow.
C3_MultiscaleValidates ==
    (pc = "created" /\ config.model_name = "multiscale"
        /\ (config.size % 2 = 1 \/ config.size % 4 # 0)) =>
        /\ ret.status = "error"
        /\ ~moved

\* C4: for an unknown model_name create_flow raises NameError with message
\* "Unknown model: <model_name>", returns no flow and reaches neither the device
\* move nor the print; "Unknown model" is reported only for unknown names.
C4_UnknownModelReported ==
    pc = "created" =>
        /\ config.model_name \notin Builders =>
              /\ ret.status = "error"
              /\ ret.error = "NameError"
              /\ ret.msg = <<"Unknown model: ", config.model_name>>
              /\ ~moved
              /\ ~printed
        /\ (ret.status = "error" /\ ret.msg[1] = "Unknown model: ") =>
              config.model_name \notin Builders

SameArgs(a, b) ==
    /\ a.fn = b.fn
    /\ a.fn # "none"
    /\ IF a.fn = "create_channel_mask" THEN a.c_in = b.c_in
       ELSE a.h = b.h /\ a.w = b.w

\* C5: the masks hold only 0 and 1; the invert=True mask has the shape of the
\* invert=False mask and equals 1 - it elementwise; complementing twice gives
\* the mask back.
C5_MaskComplement ==
    /\ \A a \in Calls : a.fn # "none" =>
          /\ AllIn(a.mask, {0, 1})
          /\ OneMinus(OneMinus(a.mask)) = a.mask
    /\ \A a, b \in Calls : (SameArgs(a, b) /\ ~a.invert /\ b.invert) =>
          /\ b.mask.shape = a.mask.shape
          /\ DOMAIN b.mask.data = DOMAIN a.mask.data
          /\ \A p \in DOMAIN a.mask.data : b.mask.data[p] = 1 - a.mask.data[p]

C5_Witness ==
    /\ prev.fn = "create_checkerboard_mask"
    /\ SameArgs(prev, cur)
    /\ prev.h = 3
    /\ prev.w = 2
    /\ ~prev.invert
    /\ cur.invert
    /\ cur.mask.data = <<1, 0, 0, 1, 1, 0>>

\* C6: create_channel_mask(c_in, invert=False) has shape [1, c_in, 1, 1], is 1
\* on exactly the first floor(c_in / 2) channels and 0 on the remaining ones,
\* also for odd c_in and for c_in = 1.
C6_ChannelMaskFloor ==
    \A a \in Calls : (a.fn = "create_channel_mask" /\ ~a.invert) =>
        /\ a.mask.shape = <<1, a.c_in, 1, 1>>
        /\ Len(a.mask.data) = a.c_in
        /\ \A k \in 1..a.c_in :
              a.mask.data[k] = IF k <= a.c_in \div 2 THEN 1 ELSE 0
        /\ a.c_in = 1 => a.mask.data = <<0>>
        /\ a.c_in % 2 = 1 =>
              Cardinality({k \in 1..a.c_in : a.mask.data[k] = 0})
                 = Cardinality({k \in 1..a.c_in : a.mask.data[k] = 1}) + 1

C6_Witness ==
    /\ cur.fn = "create_channel_mask"
    /\ cur.c_in = 5
    /\ ~cur.invert
    /\ cur.mask.data = <<1, 1, 0, 0, 0>>
    /\ prev.fn = "create_channel_mask"
    /\ prev.c_in = 1
    /\ ~prev.invert

\* C7: create_checkerboard_mask(h, w, invert=False) has shape [1, 1, h, w] and
\* entry (i, j) equal to (i + j) mod 2, so entry (0, 0) is 0 and neighbours
\* differ; two calls with the same (h, w, invert) give the same mask.
C7_CheckerboardEntries ==
    /\ \A a \in Calls : (a.fn = "create_checkerboard_mask" /\ ~a.invert) =>
          /\ a.mask.shape = <<1, 1, a.h, a.w>>
          /\ Len(a.mask.data) = a.h * a.w
          /\ \A i \in 0..(a.h - 1), j \in 0..(a.w - 1) :
                /\ a.mask.data[i * a.w + j + 1] = (i + j) % 2
                /\ j + 1 < a.w =>
                      a.mask.data[i * a.w + j + 1] # a.mask.data[i * a.w + j + 2]
                /\ i + 1 < a.h =>
                      a.mask.data[i * a.w + j + 1] # a.mask.data[(i + 1) * a.w + j + 1]
          /\ a.mask.data[1] = 0
    /\ (SameArgs(prev, cur) /\ prev.fn = "create_checkerboard_mask"
          /\ prev.invert = cur.invert) => prev.mask = cur.mask

C7_Witness ==
    /\ cur.fn = "create_checkerboard_mask"
    /\ cur.h = 3
    /\ cur.w = 4
    /\ ~cur.invert
    /\ cur.mask.data = <<0, 1, 0, 1, 1, 0, 1, 0, 0, 1, 0, 1>>

\* C8: after construction the last layer of GatedConvNet and of GatedLinearNet
\* has all weights and biases zero, so the network output is zero at every
\* position whatever the earlier layers produce.
C8_ZeroInitOutput ==
    /\ net.kind # "none" =>
          /\ AllIn(net.last.weight, {0})
          /\ AllIn(net.last.bias, {0})
    /\ out.kind # "none" =>
          /\ AllIn(out.y, {0})
          /\ out.y.shape = <<1, IF out.kind = "GatedConvNet" THEN net.c_out
                                ELSE 2 * out.x_shape[2],
                             out.x_shape[3], out.x_shape[4]>>
          /\ Len(out.y.data) = Prod(out.y.shape)

C8_Witness ==
    /\ net.kind = "GatedConvNet"
    /\ out.kind = "GatedConvNet"
    /\ \E p \in DOMAIN net.first.weight.data : net.first.weight.data[p] # 0
    /\ \A p \in DOMAIN out.hidden.data : out.hidden.data[p] # 0
    /\ Len(out.y.data) >= 8
    /\ AllIn(out.y, {0})

\* C9: for even size the latent shape from pushing [n, c, size, size] through
\* the multiscale layer list is defined at every step and equals the integer
\* truncation of [n, c, size, size] times sample_shape_factor; every coupling
\* layer's c_in and channel-mask length equal the channels reaching it.
C9_LatentShape ==
    (pc = "created" /\ config.model_name = "multiscale" /\ config.size % 2 = 0
        /\ ret.status = "ok" /\ z.status # "none") =>
        LET flows == flowsOf(ret)
        IN /\ z.status = "ok"
           /\ \A k \in DOMAIN flows :
                 /\ z.reached[k] # ShapeError
                 /\ IsCoupling(flows[k]) =>
                       /\ flows[k].c_in = z.reached[k][2]
                       /\ flows[k].mask.shape[2] \in {1, z.reached[k][2]}
                       /\ flows[k].mask.shape[3] \in {1, z.reached[k][3]}
                       /\ flows[k].network.c_in = z.reached[k][2]
           /\ (sample_shape # NoShape /\ z.x_shape[1] = config.num_samples) =>
                 z.shape = sample_shape

C9_Witness ==
    /\ pc = "created"
    /\ config.model_name = "multiscale"
    /\ config.size = 28
    /\ config.c = 2
    /\ z.status = "ok"
    /\ z.x_shape[1] = config.num_samples
    /\ sample_shape = <<config.num_samples, 16, 7, 7>>
    /\ z.shape = sample_shape

\* position of a coupling layer within its run of consecutive coupling layers
RECURSIVE RunIndex(_, _)
RunIndex(flows, k) ==
    IF k = 1 \/ ~IsCoupling(flows[k - 1]) THEN 0 ELSE RunIndex(flows, k - 1) + 1

Alternates(flows) ==
    \A k \in DOMAIN flows : IsCoupling(flows[k]) =>
        LET m == flows[k].mask
        IN /\ AllIn(m, {0, 1})
           /\ IF RunIndex(flows, k) = 0
              THEN m.data[1] = IF m.shape[2] > 1 THEN 1 ELSE 0
              ELSE LET q == flows[k - 1].mask
                   IN /\ q.shape = m.shape
                      /\ \A p \in DOMAIN m.data : m.data[p] = 1 - q.data[p]
                      /\ \A p \in DOMAIN m.data : {m.data[p], q.data[p]} = {0, 1}

AlternatesAll(flows) ==
    /\ Alternates(flows)
    /\ \A k \in DOMAIN flows : flows[k].kind = "VariationalDequantization" =>
          Alternates(flows[k].var_flows)

\* C10: in every layer list built by get_flow_layers and create_multiscale_flow
\* the i-th coupling layer of each run uses invert = (i odd), so consecutive
\* layers of a run have complementary masks and in a run of two or more every
\* position is transformed in one layer and passed through in another.
C10_MasksAlternate ==
    /\ (pc = "created" /\ ret.status = "ok") => AlternatesAll(flowsOf(ret))
    /\ (pc = "layers" /\ flow_layers.status = "ok") => AlternatesAll(flow_layers.flow_layers)

C10_Witness ==
    /\ pc = "created"
    /\ config.model_name = "multiscale"
    /\ config.size = 24
    /\ ret.status = "ok"
    /\ Len(flowsOf(ret)) = 12
    /\ RunIndex(flowsOf(ret), 12) = 3
    /\ flowsOf(ret)[12].mask.data[1] = 0

====
